---- MODULE Spec2Model ----
(***************************************************************************)
(* Model of the two FlightWatch data-preparation tools:                    *)
(*   firmware/tools/fetch_flightwatch_lookup.py  (Lookup Builder)          *)
(*   gen_tz.py                                   (Timezone Table Generator)*)
(*                                                                         *)
(* A Python str is a sequence of one-character strings, so that strip,     *)
(* upper, lower, join and len are computed and not assumed.  Literal       *)
(* pieces of an output template ("\n", the braces of an array entry) are   *)
(* single tokens of the emitted text.                                      *)
(***************************************************************************)
EXTENDS Integers, Sequences, FiniteSets, TLC

VARIABLES
    pc,         \* position of the running script
    rows,       \* build_lookup: rows / gen_tz: rows
    name_fn,    \* build_lookup: "airline_name" or "aircraft_name"
    code_field, \* build_lookup: name of the code column
    i,          \* number of rows the running for-loop has consumed
    name,       \* build_lookup: local variable name
    out,        \* build_lookup: the dict under construction
    src,        \* what the two URLs serve (unchanged between runs)
    response,   \* load_rows: outcome of the last requests.get
    airlines,   \* __main__: airlines
    aircraft,   \* __main__: aircraft
    fs,         \* the files airlines.json and aircraft.json
    touched,    \* files opened by the current run
    run,        \* number of the current run of the Lookup Builder
    prev,       \* the files as the previous run left them
    zones,      \* the input file ..\tzdb_tmp\zones.csv
    lines,      \* gen_tz: lines
    header      \* the output file firmware/config/IanaPosixDb.h

vars == <<pc, rows, name_fn, code_field, i, name, out, src, response, airlines,
          aircraft, fs, touched, run, prev, zones, lines, header>>

-----------------------------------------------------------------------------
(* Bounds *)

MaxRows == 2        \* rows given to build_lookup
MaxSrcRows == 2     \* rows served by each URL
MaxRuns == 2        \* consecutive runs of the Lookup Builder
MaxTzRows == 2      \* rows of zones.csv

-----------------------------------------------------------------------------
(* Python str operations *)

Lowers == <<"a","b","c","d","e","f","g","h","i","j","k","l","m",
            "n","o","p","q","r","s","t","u","v","w","x","y","z">>
Uppers == <<"A","B","C","D","E","F","G","H","I","J","K","L","M",
            "N","O","P","Q","R","S","T","U","V","W","X","Y","Z">>

\* characters by increasing code point
CodePoints == <<" ", "+", "-", "/", "0", "1", "2", "3", "4", "5", "6", "7",
                "8", "9", "<", ">">> \o Uppers \o <<"_">> \o Lowers

Ord(c) == CHOOSE k \in 1..Len(CodePoints) : CodePoints[k] = c

IsSpace(c) == c = " "

UpperChar(c) ==
    IF \E k \in 1..26 : Lowers[k] = c
    THEN Uppers[CHOOSE k \in 1..26 : Lowers[k] = c]
    ELSE c

LowerChar(c) ==
    IF \E k \in 1..26 : Uppers[k] = c
    THEN Lowers[CHOOSE k \in 1..26 : Uppers[k] = c]
    ELSE c

Upper(s) == [k \in 1..Len(s) |-> UpperChar(s[k])]

Lower(s) == [k \in 1..Len(s) |-> LowerChar(s[k])]

\* str.strip(): drop leading and trailing whitespace
Strip(s) ==
    LET nonsp == {k \in 1..Len(s) : ~IsSpace(s[k])}
    IN  IF nonsp = {} THEN << >>
        ELSE LET lo == CHOOSE k \in nonsp : \A m \in nonsp : k <= m
                 hi == CHOOSE k \in nonsp : \A m \in nonsp : m <= k
             IN  SubSeq(s, lo, hi)

\* filter(None, parts): keep the non-empty strings
RECURSIVE FilterNone(_)
FilterNone(parts) ==
    IF parts = << >> THEN << >>
    ELSE IF Head(parts) = << >> THEN FilterNone(Tail(parts))
    ELSE <<Head(parts)>> \o FilterNone(Tail(parts))

\* sep.join(parts)
RECURSIVE Join(_, _)
Join(sep, parts) ==
    IF parts = << >> THEN << >>
    ELSE IF Len(parts) = 1 THEN Head(parts)
    ELSE Head(parts) \o sep \o Join(sep, Tail(parts))

\* (r.get(field) or "").strip(); a column the row lacks reads as None
GetStripped(r, field) ==
    Strip(IF field \in DOMAIN r THEN r[field] ELSE << >>)

-----------------------------------------------------------------------------
(* fetch_flightwatch_lookup.py: name selection and build_lookup *)

min_len == 3
max_len == 4

AirlineFields == <<"name", "name2", "alias">>
AircraftFields == <<"name", "model", "model_name", "text", "type">>

\* the for-loop shared by airline_name and aircraft_name
RECURSIVE FirstField(_, _)
FirstField(r, fields) ==
    IF fields = << >> THEN << >>
    ELSE LET v == GetStripped(r, Head(fields))
         IN  IF v # << >> THEN v ELSE FirstField(r, Tail(fields))

\* airline_name trying name2 before name
airline_name_name2_first(r) == FirstField(r, <<"name2", "name", "alias">>)

airline_name(r) == FirstField(r, AirlineFields)

\* aircraft_name without the manufacturer + model fallback
aircraft_name_no_fallback(r) == FirstField(r, AircraftFields)

aircraft_name(r) ==
    LET v == FirstField(r, AircraftFields)
    IN  IF v # << >> THEN v
        ELSE Strip(Join(<<" ">>, FilterNone(<<GetStripped(r, "manufacturer"),
                                              GetStripped(r, "model")>>)))

NameFn(fn, r) == IF fn = "airline_name" THEN airline_name(r) ELSE aircraft_name(r)

\* code = (r.get(code_field) or "").strip().upper()
CodeOf(r, field) == Upper(GetStripped(r, field))

\* the length filter without its upper bound
LenOkNoMax(code) == min_len <= Len(code)

\* the length filter admitting two-character codes
LenOkFrom2(code) == 2 <= Len(code) /\ Len(code) <= max_len

\* min_len <= len(code) <= max_len
LenOk(code) == min_len <= Len(code) /\ Len(code) <= max_len

\* out.setdefault(code, name): the first row of a code wins
DictSetDefault(d, k, v) == [x \in (DOMAIN d) \cup {k} |-> IF x \in DOMAIN d THEN d[x] ELSE v]

\* out[code] = name
DictSet(d, k, v) == [x \in (DOMAIN d) \cup {k} |-> IF x = k THEN v ELSE d[x]]

EmptyDict == [x \in {} |-> << >>]

\* one iteration of the for-loop of build_lookup
LoopBody(r) ==
    LET code == CodeOf(r, code_field)
    IN  IF ~LenOk(code)
        THEN UNCHANGED <<name, out>>
        ELSE /\ name' = NameFn(name_fn, r)
             /\ out' = IF name' # << >> THEN DictSet(out, code, name') ELSE out

BuildPcs == {"build_lookup", "build_airlines", "build_aircraft"}

BuildStep ==
    /\ pc \in BuildPcs
    /\ i < Len(rows)
    /\ i' = i + 1
    /\ LoopBody(rows[i + 1])
    /\ UNCHANGED <<pc, rows, name_fn, code_field, src, response, airlines, aircraft, fs,
                   touched, run, prev, zones, lines, header>>

\* return out, to a caller that only keeps the result
BuildReturn ==
    /\ pc = "build_lookup"
    /\ i = Len(rows)
    /\ pc' = "returned"
    /\ UNCHANGED <<rows, name_fn, code_field, i, name, out, src, response, airlines,
                   aircraft, fs, touched, run, prev, zones, lines, header>>


-----------------------------------------------------------------------------
(* Inputs of build_lookup *)

SeqsUpTo(S, n) == UNION {[1..m -> S] : m \in 0..n}

s_empty == << >>
s_blank == <<" ">>
s_American == <<" ","A","m","e","r","i","c","a","n">>
s_American_Airlines == <<"A","m","e","r","i","c","a","n"," ",
                         "A","i","r","l","i","n","e","s">>
s_AA == <<"A","A">>
s_aa_ == <<"a","a"," ">>
s_aal == <<" ","a","a","l">>
s_AAL == <<"A","A","L">>
s_dlhx == <<"d","l","h","x"," ">>
s_aalxy == <<"a","a","l","x","y">>
s_a320 == <<"a","3","2","0">>
s_A320 == <<"A","3","2","0">>
s_A320_padded == <<" ","A","3","2","0"," ">>
s_a3 == <<"a","3">>
s_Airbus == <<"A","i","r","b","u","s">>
s_Airbus_padded == <<" ","A","i","r","b","u","s"," ">>
s_Airbus_A320 == <<"A","i","r","b","u","s"," ","A","3","2","0">>
s_Jet == <<"J","e","t">>
s_Neo == <<"N","e","o">>
s_Txt == <<"T","x","t">>
s_L2J == <<"L","2","J">>

\* rows of the airline table: every combination of code and name columns,
\* and one short row that has no columns after the code
AirlineRows ==
    {("3char_code" :> c) @@ ("name" :> n) @@ ("name2" :> n2) @@ ("alias" :> a) :
        c \in {s_aa_, s_aal, s_AAL, s_dlhx, s_aalxy},
        n \in {s_empty, s_American},
        n2 \in {s_empty, s_American_Airlines},
        a \in {s_blank, s_AA}}
    \cup {("3char_code" :> s_AAL), ("name" :> s_American)}

\* rows of the aircraft table used in sequences
AircraftSampleRows ==
    {("icao_code" :> s_a320) @@ ("manufacturer" :> s_Airbus) @@ ("model" :> s_A320)
        @@ ("name" :> s_empty) @@ ("model_name" :> s_empty) @@ ("text" :> s_empty)
        @@ ("type" :> s_empty),
     ("icao_code" :> s_A320_padded) @@ ("manufacturer" :> s_Airbus_padded)
        @@ ("model" :> s_blank) @@ ("name" :> s_empty),
     ("icao_code" :> s_a320) @@ ("manufacturer" :> s_blank) @@ ("model" :> s_empty),
     ("icao_code" :> s_a3) @@ ("name" :> s_Jet),
     ("icao_code" :> s_aalxy) @@ ("type" :> s_L2J)}

\* single aircraft rows: every combination of the seven columns
AircraftProductRows ==
    {("icao_code" :> c) @@ ("name" :> n) @@ ("model" :> m) @@ ("model_name" :> mn)
        @@ ("text" :> t) @@ ("type" :> ty) @@ ("manufacturer" :> mf) :
        c \in {s_a320, s_a3},
        n \in {s_empty, s_Jet},
        m \in {s_blank, s_A320_padded},
        mn \in {s_empty, s_Neo},
        t \in {s_empty, s_Txt},
        ty \in {s_blank, s_L2J},
        mf \in {s_empty, s_Airbus_padded}}

CodeField(fn) == IF fn = "airline_name" THEN "3char_code" ELSE "icao_code"

BuildInputs(fn) ==
    IF fn = "airline_name"
    THEN SeqsUpTo(AirlineRows, MaxRows)
    ELSE SeqsUpTo(AircraftSampleRows, MaxRows)
         \cup {<<r>> : r \in AircraftProductRows}

NoFile == [exists |-> FALSE, text |-> << >>]
NoFiles == [f \in {"airlines.json", "aircraft.json"} |-> NoFile]
NoSource == [airlines |-> << >>, aircraft |-> << >>]
NoPrev == [completed |-> FALSE, fs |-> NoFiles]
NoResponse == [raised |-> FALSE, status_code |-> 0]

\* the state the other tool's variables rest in
IdleMain ==
    /\ src = NoSource
    /\ response = NoResponse
    /\ airlines = EmptyDict
    /\ aircraft = EmptyDict
    /\ fs = NoFiles
    /\ touched = {}
    /\ run = 1
    /\ prev = NoPrev

IdleTz ==
    /\ zones = NoFile
    /\ lines = << >>
    /\ header = NoFile

\* build_lookup(rows, code_field, name_fn) with the default bounds
InitBuild ==
    /\ pc = "build_lookup"
    /\ name_fn \in {"airline_name", "aircraft_name"}
    /\ code_field = CodeField(name_fn)
    /\ rows \in BuildInputs(name_fn)
    /\ i = 0
    /\ name = << >>
    /\ out = EmptyDict
    /\ IdleMain
    /\ IdleTz

NextBuild == BuildStep \/ BuildReturn

SpecBuild == InitBuild /\ [][NextBuild]_vars

-----------------------------------------------------------------------------
(* Properties of build_lookup, airline_name and aircraft_name *)

\* v is the first non-empty trimmed value of r among fields, in order
IsFirstNonEmpty(r, fields, v) ==
    \E k \in 1..Len(fields) :
        /\ v = GetStripped(r, fields[k])
        /\ v # << >>
        /\ \A m \in 1..(k - 1) : GetStripped(r, fields[m]) = << >>

\* the candidate name fields of a dataset, in priority order
Candidates(fn) ==
    IF fn = "airline_name" THEN <<"name", "name2", "alias">>
    ELSE <<"name", "model", "model_name", "text", "type">>

HasCandidate(r, fn) ==
    \E k \in 1..Len(Candidates(fn)) : GetStripped(r, Candidates(fn)[k]) # << >>

ValidCode(r) == Len(CodeOf(r, code_field)) \in {3, 4}

\* a row after position k has the same code and a non-empty selected name
Overwritten(k) ==
    \E j \in (k + 1)..Len(rows) :
        /\ CodeOf(rows[j], code_field) = CodeOf(rows[k], code_field)
        /\ NameFn(name_fn, rows[j]) # << >>

\* C1 as stated: every row with a valid code and a non-empty candidate name
\* is in the returned map under its code with its first non-empty candidate.
C1_AsStated ==
    pc = "returned" =>
        \A k \in 1..Len(rows) :
            (ValidCode(rows[k]) /\ HasCandidate(rows[k], name_fn)) =>
                /\ CodeOf(rows[k], code_field) \in DOMAIN out
                /\ IsFirstNonEmpty(rows[k], Candidates(name_fn),
                                   out[CodeOf(rows[k], code_field)])

\* C1 (amended): every row with a valid code and a non-empty candidate name
\* that no later row with the same code and a non-empty selected name
\* follows is in the returned map under its code with its first non-empty
\* candidate.
C1_FirstCandidateStored ==
    pc = "returned" =>
        \A k \in 1..Len(rows) :
            (ValidCode(rows[k]) /\ HasCandidate(rows[k], name_fn)
                /\ ~Overwritten(k)) =>
                /\ CodeOf(rows[k], code_field) \in DOMAIN out
                /\ IsFirstNonEmpty(rows[k], Candidates(name_fn),
                                   out[CodeOf(rows[k], code_field)])

C1_Witness ==
    /\ pc = "returned"
    /\ Len(rows) >= 2
    /\ \E k \in 1..Len(rows) :
        /\ ValidCode(rows[k])
        /\ HasCandidate(rows[k], name_fn)
        /\ ~Overwritten(k)
        /\ GetStripped(rows[k], "name") = << >>
        /\ out[CodeOf(rows[k], code_field)] # << >>

\* C2 as stated: of two rows with the same normalized code, the value stored
\* under the code is the name selected from the later row.
C2_AsStated ==
    pc = "returned" =>
        \A j, k \in 1..Len(rows) :
            (j < k /\ CodeOf(rows[j], code_field) = CodeOf(rows[k], code_field)
                /\ CodeOf(rows[k], code_field) \in DOMAIN out) =>
                out[CodeOf(rows[k], code_field)] = NameFn(name_fn, rows[k])

\* C2 (amended): of two rows with the same normalized code of length 3 or 4,
\* the value stored under the code is the name selected from the last row
\* with that code whose selected name is non-empty (the later of the two
\* when its name is non-empty and no such row follows it); when no row with
\* the code has a non-empty selected name the code is not a key.
C2_LastNonEmptyWins ==
    pc = "returned" =>
        \A j, k \in 1..Len(rows) :
            (j < k /\ CodeOf(rows[j], code_field) = CodeOf(rows[k], code_field)
                /\ ValidCode(rows[k])) =>
                LET c == CodeOf(rows[k], code_field)
                    named == {m \in 1..Len(rows) :
                                /\ CodeOf(rows[m], code_field) = c
                                /\ NameFn(name_fn, rows[m]) # << >>}
                IN  IF named = {} THEN c \notin DOMAIN out
                    ELSE /\ c \in DOMAIN out
                         /\ \E m \in named :
                                /\ \A n \in named : n <= m
                                /\ out[c] = NameFn(name_fn, rows[m])

C2_Witness ==
    /\ pc = "returned"
    /\ \E j, k \in 1..Len(rows) :
        /\ j < k
        /\ CodeOf(rows[j], code_field) = CodeOf(rows[k], code_field)
        /\ ValidCode(rows[k])
        /\ NameFn(name_fn, rows[j]) # << >>
        /\ NameFn(name_fn, rows[k]) # << >>
        /\ NameFn(name_fn, rows[j]) # NameFn(name_fn, rows[k])
        /\ out[CodeOf(rows[k], code_field)] = NameFn(name_fn, rows[k])

\* C3: every key of the map is the normalized code, of length 3 or 4, of a
\* consumed row with a non-empty selected name; and consuming a row whose
\* normalized code length is outside [3,4] leaves the map as it was.
C3_OnlyValidRowsAreKeys ==
    /\ [](\A c \in DOMAIN out :
            \E k \in 1..i :
                /\ CodeOf(rows[k], code_field) = c
                /\ Len(c) \in {3, 4}
                /\ NameFn(name_fn, rows[k]) # << >>)
    /\ [][(i' = i + 1 /\ ~ValidCode(rows[i'])) => out' = out]_vars

C3_Witness ==
    /\ pc = "returned"
    /\ DOMAIN out # {}
    /\ \E k \in 1..Len(rows) :
        /\ ~ValidCode(rows[k])
        /\ Len(CodeOf(rows[k], code_field)) \in {2, 5}
        /\ NameFn(name_fn, rows[k]) # << >>
        /\ CodeOf(rows[k], code_field) \notin DOMAIN out

C4Row ==
    ("3char_code" :> s_aa_) @@ ("name" :> s_empty)
        @@ ("name2" :> s_American_Airlines) @@ ("alias" :> s_AA)

\* C4 as stated: the row with 3char_code "aa " yields key "AA" with value
\* "American Airlines".
C4_AsStated ==
    (pc = "returned" /\ name_fn = "airline_name" /\ rows = <<C4Row>>) =>
        /\ s_AA \in DOMAIN out
        /\ out[s_AA] = s_American_Airlines

\* C4 (amended): the row with 3char_code "aa " yields the empty map: its
\* normalized code "AA" has length 2, below the minimum of 3.
C4_ShortCodeSkipped ==
    (pc = "returned" /\ name_fn = "airline_name" /\ rows = <<C4Row>>) =>
        /\ CodeOf(C4Row, code_field) = s_AA
        /\ out = EmptyDict

C4_Witness ==
    pc = "returned" /\ name_fn = "airline_name" /\ rows = <<C4Row>> /\ i = 1

C5Row ==
    ("icao_code" :> s_a320) @@ ("manufacturer" :> s_Airbus) @@ ("model" :> s_A320)
        @@ ("name" :> s_empty) @@ ("model_name" :> s_empty) @@ ("text" :> s_empty)
        @@ ("type" :> s_empty)

IsAircraftName(r, v) ==
    IF HasCandidate(r, "aircraft_name")
    THEN IsFirstNonEmpty(r, <<"name", "model", "model_name", "text", "type">>, v)
    ELSE LET mf == GetStripped(r, "manufacturer")
             md == GetStripped(r, "model")
         IN  v = IF mf # << >> /\ md # << >> THEN mf \o <<" ">> \o md
                 ELSE IF mf # << >> THEN mf
                 ELSE md

\* C6: for an aircraft row that passes the code filter, the selected name is
\* the first non-empty trimmed value of name, model, model_name, text, type,
\* else the space-joined non-empty trimmed manufacturer and model, else the
\* empty string, and a row whose selected name is empty leaves the map as
\* it was.
C6_AircraftNameRule ==
    [][(i' = i + 1 /\ name_fn = "aircraft_name" /\ ValidCode(rows[i'])) =>
            /\ IsAircraftName(rows[i'], name')
            /\ (name' = << >> => out' = out)]_vars

C6_Witness ==
    /\ name_fn = "aircraft_name"
    /\ i = 1
    /\ ValidCode(rows[1])
    /\ ~HasCandidate(rows[1], "aircraft_name")
    /\ GetStripped(rows[1], "manufacturer") = s_Airbus
    /\ name = s_Airbus
    /\ out[CodeOf(rows[1], code_field)] = s_Airbus

-----------------------------------------------------------------------------
(* fetch_flightwatch_lookup.py: load_rows and __main__ *)

\* outcomes of requests.get(url, timeout=20): an exception of the transport
\* (connection error, timeout), or a response with a status code
StatusCodes == {200, 404, 503}
Responses ==
    {[raised |-> TRUE, status_code |-> 0]}
    \cup {[raised |-> FALSE, status_code |-> sc] : sc \in StatusCodes}

\* a status check that lets 4xx through
RaisesForStatus5xx(sc) == 500 <= sc /\ sc < 600

\* r.raise_for_status() raises for a 4xx or 5xx status
RaisesForStatus(sc) == 400 <= sc /\ sc < 600

\* load_rows(url) fails: the exception propagates out of __main__
LoadFails(resp) == resp.raised \/ RaisesForStatus(resp.status_code)

\* a < b for str, by code point
StrLess(a, b) ==
    \E k \in 1..(Len(a) + 1) :
        /\ \A m \in 1..(k - 1) : m <= Len(b) /\ a[m] = b[m]
        /\ k <= Len(b)
        /\ (k = Len(a) + 1 \/ Ord(a[k]) < Ord(b[k]))

\* sort_keys=True
RECURSIVE SortKeys(_)
SortKeys(S) ==
    IF S = {} THEN << >>
    ELSE LET least == CHOOSE a \in S : \A b \in S \ {a} : StrLess(a, b)
         IN  <<least>> \o SortKeys(S \ {least})

RECURSIVE JsonItems(_, _)
JsonItems(d, keys) ==
    IF keys = << >> THEN << >>
    ELSE <<"  \"">> \o Head(keys) \o <<"\": \"">> \o d[Head(keys)] \o <<"\"">>
         \o (IF Len(keys) > 1 THEN <<",">> ELSE << >>) \o <<"\n">>
         \o JsonItems(d, Tail(keys))

\* json.dump(d, f, ensure_ascii=False, sort_keys=True, indent=2)
JsonDump(d) ==
    IF DOMAIN d = {} THEN <<"{}">>
    ELSE <<"{", "\n">> \o JsonItems(d, SortKeys(DOMAIN d)) \o <<"}">>

\* open(path, "a"): keep what the file holds
OpenA(file) == [exists |-> TRUE, text |-> file.text]

\* open(path, "w"): create the file or truncate it
OpenW(file) == [exists |-> TRUE, text |-> << >>]

\* f.write(text) at the end of the open file
WriteTo(file, text) == [file EXCEPT !.text = @ \o text]

CallBuild(rs, fn, next) ==
    /\ rows' = rs
    /\ name_fn' = fn
    /\ code_field' = CodeField(fn)
    /\ i' = 0
    /\ name' = << >>
    /\ out' = EmptyDict
    /\ pc' = next

\* line 39: load_rows(AIRLINE_SRC), then the call of build_lookup
LoadAirlines ==
    /\ pc = "load_airlines"
    /\ response' \in Responses
    /\ IF LoadFails(response')
       THEN /\ pc' = "aborted"
            /\ UNCHANGED <<rows, name_fn, code_field, i, name, out>>
       ELSE CallBuild(src.airlines, "airline_name", "build_airlines")
    /\ UNCHANGED <<src, airlines, aircraft, fs, touched, run, prev, zones,
                   lines, header>>

\* line 39: airlines = the dict build_lookup returns
ReturnAirlines ==
    /\ pc = "build_airlines"
    /\ i = Len(rows)
    /\ airlines' = out
    /\ pc' = "load_aircraft"
    /\ UNCHANGED <<rows, name_fn, code_field, i, name, out, src, response, aircraft, fs,
                   touched, run, prev, zones, lines, header>>

\* line 40: load_rows(AIRCRAFT_SRC), then the call of build_lookup
LoadAircraft ==
    /\ pc = "load_aircraft"
    /\ response' \in Responses
    /\ IF LoadFails(response')
       THEN /\ pc' = "aborted"
            /\ UNCHANGED <<rows, name_fn, code_field, i, name, out>>
       ELSE CallBuild(src.aircraft, "aircraft_name", "build_aircraft")
    /\ UNCHANGED <<src, airlines, aircraft, fs, touched, run, prev, zones,
                   lines, header>>

\* lines 40-41: aircraft = the dict build_lookup returns; print the sizes
ReturnAircraft ==
    /\ pc = "build_aircraft"
    /\ i = Len(rows)
    /\ aircraft' = out
    /\ pc' = "open_airlines"
    /\ UNCHANGED <<rows, name_fn, code_field, i, name, out, src, response, airlines, fs,
                   touched, run, prev, zones, lines, header>>

\* line 42
OpenAirlines ==
    /\ pc = "open_airlines"
    /\ fs' = [fs EXCEPT !["airlines.json"] = OpenW(@)]
    /\ touched' = touched \cup {"airlines.json"}
    /\ pc' = "dump_airlines"
    /\ UNCHANGED <<rows, name_fn, code_field, i, name, out, src, response, airlines,
                   aircraft, run, prev, zones, lines, header>>

\* line 43
DumpAirlines ==
    /\ pc = "dump_airlines"
    /\ fs' = [fs EXCEPT !["airlines.json"] = WriteTo(@, JsonDump(airlines))]
    /\ pc' = "open_aircraft"
    /\ UNCHANGED <<rows, name_fn, code_field, i, name, out, src, response, airlines,
                   aircraft, touched, run, prev, zones, lines, header>>

\* line 44
OpenAircraft ==
    /\ pc = "open_aircraft"
    /\ fs' = [fs EXCEPT !["aircraft.json"] = OpenW(@)]
    /\ touched' = touched \cup {"aircraft.json"}
    /\ pc' = "dump_aircraft"
    /\ UNCHANGED <<rows, name_fn, code_field, i, name, out, src, response, airlines,
                   aircraft, run, prev, zones, lines, header>>

\* line 45
DumpAircraft ==
    /\ pc = "dump_aircraft"
    /\ fs' = [fs EXCEPT !["aircraft.json"] = WriteTo(@, JsonDump(aircraft))]
    /\ pc' = "done"
    /\ UNCHANGED <<rows, name_fn, code_field, i, name, out, src, response, airlines,
                   aircraft, touched, run, prev, zones, lines, header>>

\* the script is run again: a new process, the same files and sources
RunAgain ==
    /\ pc \in {"done", "aborted"}
    /\ run < MaxRuns
    /\ run' = run + 1
    /\ prev' = [completed |-> pc = "done", fs |-> fs]
    /\ pc' = "load_airlines"
    /\ rows' = << >>
    /\ name_fn' = "airline_name"
    /\ code_field' = CodeField("airline_name")
    /\ i' = 0
    /\ name' = << >>
    /\ out' = EmptyDict
    /\ airlines' = EmptyDict
    /\ aircraft' = EmptyDict
    /\ touched' = {}
    /\ response' = NoResponse
    /\ UNCHANGED <<src, fs, zones, lines, header>>

s_b738 == <<"b","7","3","8">>
s_737 == <<" ","7","3","7">>

\* rows the airline URL may serve
SrcAirlineRows ==
    {("3char_code" :> s_aal) @@ ("name" :> s_American),
     ("3char_code" :> s_AAL) @@ ("name" :> s_blank) @@ ("name2" :> s_American_Airlines),
     ("3char_code" :> s_dlhx) @@ ("alias" :> s_AA),
     C4Row}

\* rows the aircraft URL may serve
SrcAircraftRows ==
    {C5Row,
     ("icao_code" :> s_A320_padded) @@ ("manufacturer" :> s_Airbus_padded),
     ("icao_code" :> s_b738) @@ ("model" :> s_737)}

InitMain ==
    /\ pc = "load_airlines"
    /\ src \in [airlines : SeqsUpTo(SrcAirlineRows, MaxSrcRows),
                aircraft : SeqsUpTo(SrcAircraftRows, MaxSrcRows)]
    /\ rows = << >>
    /\ name_fn = "airline_name"
    /\ code_field = CodeField("airline_name")
    /\ i = 0
    /\ name = << >>
    /\ out = EmptyDict
    /\ response = NoResponse
    /\ airlines = EmptyDict
    /\ aircraft = EmptyDict
    /\ fs = NoFiles
    /\ touched = {}
    /\ run = 1
    /\ prev = NoPrev
    /\ IdleTz

NextMain ==
    \/ LoadAirlines
    \/ BuildStep
    \/ ReturnAirlines
    \/ LoadAircraft
    \/ ReturnAircraft
    \/ OpenAirlines
    \/ DumpAirlines
    \/ OpenAircraft
    \/ DumpAircraft
    \/ RunAgain

SpecMain == InitMain /\ [][NextMain]_vars

\* the retrieval failed: a transport error or a status outside 2xx
FetchFailed(resp) ==
    resp.raised \/ ~(200 <= resp.status_code /\ resp.status_code < 300)

KeysInText(text) ==
    LET starts == {p \in 1..Len(text) : text[p] = "  \""}
        KeyAt(p) ==
            LET q == CHOOSE e \in (p + 1)..Len(text) :
                        /\ text[e] = "\": \""
                        /\ \A m \in (p + 1)..(e - 1) : text[m] # "\": \""
            IN  SubSeq(text, p + 1, q - 1)
    IN  {<<Cardinality({q \in starts : q <= p}), KeyAt(p)>> : p \in starts}

\* C10: a completed run leaves in each file exactly the dump of that
\* dataset's map, its keys in increasing order, whatever the file held
\* before; so a run that completes after a completed run against the same
\* source rows leaves both files as the earlier run left them.
C10_RerunSameFiles ==
    pc = "done" =>
        /\ \A f \in {"airlines.json", "aircraft.json"} :
            LET d == IF f = "airlines.json" THEN airlines ELSE aircraft
                keys == KeysInText(fs[f].text)
            IN  /\ fs[f].exists
                /\ fs[f].text = JsonDump(d)
                /\ {e[2] : e \in keys} = DOMAIN d
                /\ Cardinality(keys) = Cardinality(DOMAIN d)
                /\ \A a, b \in keys : a[1] < b[1] => StrLess(a[2], b[2])
        /\ (prev.completed => fs = prev.fs)

C10_Witness ==
    /\ pc = "done"
    /\ run = 2
    /\ prev.completed
    /\ Cardinality(DOMAIN airlines) = 2
    /\ DOMAIN aircraft # {}
    /\ fs = prev.fs

-----------------------------------------------------------------------------
(* gen_tz.py *)

DigitChars == <<"0", "1", "2", "3", "4", "5", "6", "7", "8", "9">>

\* '%d' % n, for n >= 0
RECURSIVE FormatInt(_)
FormatInt(n) ==
    IF n < 10 THEN <<DigitChars[n + 1]>>
    ELSE FormatInt(n \div 10) \o <<DigitChars[(n % 10) + 1]>>

\* line 3: the lines before the array entries
Preamble ==
    << <<"#pragma once">>,
       << >>,
       <<"#include <stdint.h>">>,
       << >>,
       <<"struct IanaPosixEntry { const char *iana; const char *posix; };">>,
       << >>,
       <<"static const IanaPosixEntry IANA_POSIX_DB[] PROGMEM = {">> >>

\* the entry without .lower()
FormatEntryAsGiven(iana, posix) ==
    <<"    {\"">> \o iana \o <<"\", \"">> \o posix \o <<"\"},">>

\* line 5: '    {"%s", "%s"},' % (r[0].lower(), r[1])
FormatEntry(iana, posix) ==
    <<"    {\"">> \o Lower(iana) \o <<"\", \"">> \o posix \o <<"\"},">>

\* line 8: 'static const size_t IANA_POSIX_DB_COUNT = %d;' % len(rows)
FormatCount(n) ==
    <<"static const size_t IANA_POSIX_DB_COUNT = ">> \o FormatInt(n) \o <<";">>

\* lines 2-3: read zones.csv; a missing file raises out of open()
TzRead ==
    /\ pc = "tz_read"
    /\ IF zones.exists
       THEN /\ rows' = zones.text
            /\ lines' = Preamble
            /\ pc' = "tz_rows"
       ELSE /\ pc' = "aborted"
            /\ UNCHANGED <<rows, lines>>
    /\ UNCHANGED <<name_fn, code_field, i, name, out, src, response, airlines,
                   aircraft, fs, touched, run, prev, zones, header>>

\* lines 4-5: one iteration; r[0] or r[1] raises IndexError on a short row
TzAppendEntry ==
    /\ pc = "tz_rows"
    /\ i < Len(rows)
    /\ IF Len(rows[i + 1]) < 2
       THEN /\ pc' = "aborted"
            /\ UNCHANGED <<i, lines>>
       ELSE /\ lines' = Append(lines, FormatEntry(rows[i + 1][1], rows[i + 1][2]))
            /\ i' = i + 1
            /\ pc' = pc
    /\ UNCHANGED <<rows, name_fn, code_field, name, out, src, response,
                   airlines, aircraft, fs, touched, run, prev, zones, header>>

\* lines 6-10: close the array, add the count, write the header file
TzWrite ==
    /\ pc = "tz_rows"
    /\ i = Len(rows)
    /\ lines' = lines \o << <<"};">>, << >>, FormatCount(Len(rows)) >>
    /\ header' = [exists |-> TRUE, text |-> Join(<<"\n">>, lines')]
    /\ pc' = "tz_done"
    /\ UNCHANGED <<rows, name_fn, code_field, i, name, out, src, response,
                   airlines, aircraft, fs, touched, run, prev, zones>>

s_UTC == <<"U","T","C">>
s_utc == <<"u","t","c">>
s_Asia_Omsk == <<"A","s","i","a","/","O","m","s","k">>
s_UTC0 == <<"U","T","C","0">>
s_plus06 == <<"<","+","0","6",">","-","6">>
s_EST5EDT == <<"E","S","T","5","E","D","T">>
s_M3 == <<"M","3">>

\* rows csv.reader may yield: two columns, and none, one or three
TzRows ==
    {<<ia, px>> : ia \in {s_UTC, s_utc, s_Asia_Omsk}, px \in {s_UTC0, s_plus06}}
    \cup {<< >>, <<s_UTC>>, <<s_Asia_Omsk, s_EST5EDT, s_M3>>}

InitTz ==
    /\ pc = "tz_read"
    /\ zones \in {NoFile} \cup {[exists |-> TRUE, text |-> t] :
                                    t \in SeqsUpTo(TzRows, MaxTzRows)}
    /\ rows = << >>
    /\ i = 0
    /\ lines = << >>
    /\ header = NoFile
    /\ name_fn = "airline_name"
    /\ code_field = CodeField("airline_name")
    /\ name = << >>
    /\ out = EmptyDict
    /\ IdleMain

NextTz == TzRead \/ TzAppendEntry \/ TzWrite

SpecTz == InitTz /\ [][NextTz]_vars

\* text.split("\n")
RECURSIVE SplitLines(_)
SplitLines(text) ==
    IF \A p \in 1..Len(text) : text[p] # "\n" THEN <<text>>
    ELSE LET p == CHOOSE q \in 1..Len(text) :
                    text[q] = "\n" /\ \A m \in 1..(q - 1) : text[m] # "\n"
         IN  <<SubSeq(text, 1, p - 1)>> \o SplitLines(SubSeq(text, p + 1, Len(text)))

\* the lines of the header that are array entries, in order
RECURSIVE EntryLines(_)
EntryLines(ls) ==
    IF ls = << >> THEN << >>
    ELSE (IF Head(ls) # << >> /\ Head(ls)[1] = "    {\"" THEN <<Head(ls)>> ELSE << >>)
         \o EntryLines(Tail(ls))

\* line is the array entry of the pair <<iana, posix>>
IsEntry(line, iana, posix) ==
    /\ Len(line) = Len(iana) + Len(posix) + 3
    /\ line[1] = "    {\""
    /\ SubSeq(line, 2, Len(iana) + 1) = iana
    /\ line[Len(iana) + 2] = "\", \""
    /\ SubSeq(line, Len(iana) + 3, Len(line) - 1) = posix
    /\ line[Len(line)] = "\"},"

RECURSIVE ParseInt(_)
ParseInt(digits) ==
    IF digits = << >> THEN 0
    ELSE 10 * ParseInt(SubSeq(digits, 1, Len(digits) - 1))
         + ((CHOOSE k \in 1..10 : DigitChars[k] = digits[Len(digits)]) - 1)

\* the value of IANA_POSIX_DB_COUNT declared on the last line
DeclaredCount(ls) ==
    LET last == ls[Len(ls)]
    IN  IF Len(last) >= 3
            /\ last[1] = "static const size_t IANA_POSIX_DB_COUNT = "
            /\ last[Len(last)] = ";"
        THEN ParseInt(SubSeq(last, 2, Len(last) - 1))
        ELSE -1

\* C8: for an input whose rows all have two columns, the written header has
\* one array entry per input row, in input order, each the pair (lowercased
\* IANA identifier, POSIX string as given), duplicates included, and the
\* declared IANA_POSIX_DB_COUNT is the number of input rows.
C8_HeaderMirrorsRows ==
    (zones.exists /\ \A k \in 1..Len(zones.text) : Len(zones.text[k]) = 2) =>
        /\ pc # "aborted"
        /\ pc = "tz_done" =>
           (LET ls == SplitLines(header.text)
                es == EntryLines(ls)
            IN  /\ header.exists
                /\ Len(es) = Len(zones.text)
                /\ DeclaredCount(ls) = Len(zones.text)
                /\ \A k \in 1..Len(es) :
                    /\ IsEntry(es[k], Lower(zones.text[k][1]), zones.text[k][2])
                    /\ \A p \in 1..Len(zones.text[k][1]) :
                        \A u \in 1..26 : es[k][p + 1] # Uppers[u])

C8_Witness ==
    /\ pc = "tz_done"
    /\ Len(zones.text) = 2
    /\ \A k \in 1..2 : Len(zones.text[k]) = 2
    /\ zones.text[1][1] = s_UTC
    /\ zones.text[2][1] = s_utc
    /\ zones.text[1][2] # zones.text[2][2]
    /\ header.exists

\* C9: a run whose input file is missing or has a row without exactly two
\* columns does not complete and does not write the header.
C9_MalformedInputAborts ==
    (~zones.exists \/ \E k \in 1..Len(zones.text) : Len(zones.text[k]) # 2) =>
        (pc # "tz_done" /\ ~header.exists)

=============================================================================
